---- MODULE Spec2Model ----
(***************************************************************************)
(* Model of the (17, 9, 5) cyclic code of cai_cyclic (src/src/lib.rs):     *)
(* encode, decode (a 17-step fold over the rotating word), rotate_17 and   *)
(* the three constant tables GEN, PAR and PATTERNS.                        *)
(*                                                                         *)
(* An unsigned machine integer is modelled as the set of the positions of  *)
(* its 1-bits: 0b101 is {0, 2}.  The bit operators of the source are then  *)
(* exact set operations: & is intersection, | is union, ^ is symmetric     *)
(* difference, >> and << move the positions (<< drops positions that fall  *)
(* outside the type's width), count_ones is the cardinality and a          *)
(* comparison with 0 is a comparison with {}.  The tables keep the         *)
(* source's binary literals, converted by B.                               *)
(***************************************************************************)
EXTENDS Integers, Sequences, FiniteSets, TLC

VARIABLES
    op,          \* which entry point the caller invokes
    pc,          \* "call", "fold", "done" or "panic"
    data,        \* the caller's data word (loopback harness), else {}
    errs,        \* the bits the harness flips in encode(data), else {}
    arg,         \* the argument of the call in flight
    acc,         \* decode's fold accumulator: the pair (fixed, word)
    n,           \* iterations of the fold (or rotations) done so far
    syndrome,    \* the syndrome computed by the most recent fold step
    result,      \* the value returned by the call, None before it returns
    corrections, \* history: fold steps that changed the word's content
    flipped,     \* history: bits of the word changed by the fold so far
    undef        \* history: the accumulator `fixed` has been None

vars == <<op, pc, data, errs, arg, acc, n, syndrome, result,
          corrections, flipped, undef>>

\* The accumulator's components, named as the closure names them.
fixed == acc[1]
word == acc[2]

---------------------------------------------------------------------------
(* Widths of the source's integer types and of its bit fields.             *)
U8Bits == 8
U16Bits == 16
U32Bits == 32
DataBits == 9
WordBits == 17
FoldSteps == 17
ParityShift == 8
RotateMsb == 16
RotateCount == 17
\* decode is documented to correct up to 2 errors; the loopback harness
\* flips at most that many bits.
MaxErrors == 2

(* Inputs outside decode's contract: some of bits 17 .. 17+OverHighBits-1  *)
(* set, over every setting of the low OverLowBits bits.                    *)
OverHighBits == 2
OverLowBits == 4

---------------------------------------------------------------------------
(* Machine integers as sets of bit positions.                              *)
RECURSIVE BitsFrom(_, _)
BitsFrom(v, i) ==
    IF v = 0 THEN {}
    ELSE (IF v % 2 = 1 THEN {i} ELSE {}) \cup BitsFrom(v \div 2, i + 1)

\* The integer literal v as a bit set.
B(v) == BitsFrom(v, 0)

\* The 8-bit set s as a natural number (`syndrome as usize`).
RECURSIVE ToIntFrom(_, _)
ToIntFrom(s, i) ==
    IF i < 0 THEN 0
    ELSE (IF i \in s THEN 2 ^ i ELSE 0) + ToIntFrom(s, i - 1)

ToInt(s) == ToIntFrom(s, U8Bits - 1)

BitAnd(a, b) == a \cap b
BitOr(a, b) == a \cup b
BitXor(a, b) == (a \ b) \cup (b \ a)
Shr(a, k) == {i - k : i \in a \ (0 .. k - 1)}
Shl(a, k, width) == {i + k : i \in a} \cap (0 .. width - 1)
count_ones(a) == Cardinality(a)
\* `x as uN`: a cast keeps the low `width` bits.
Cast(a, width) == a \cap (0 .. width - 1)

None == <<>>
Some(v) == <<v>>

---------------------------------------------------------------------------
(* binfield_matrix: multiply a word by a binary matrix over GF(2).  Row k  *)
(* of the matrix (k = 1 .. Len(mat), first row first) contributes one      *)
(* output bit, the parity of (word & row): the rows are shifted in from    *)
(* the low end, so row k ends at bit Len(mat) - k.  matrix_mul returns     *)
(* those bits alone; matrix_mul_systematic returns them below the word     *)
(* itself, shifted left past them.                                         *)
matrix_mul(w, mat, width) ==
    Cast({Len(mat) - k :
            k \in {r \in 1 .. Len(mat) : count_ones(BitAnd(w, mat[r])) % 2 = 1}},
         width)

matrix_mul_systematic(w, mat, width) ==
    BitOr(Shl(w, Len(mat), width), matrix_mul(w, mat, width))

---------------------------------------------------------------------------
(* The constant tables.                                                    *)

\* GEN with the last bit of its last row dropped.
GEN_typo == <<
    B(\b100111100),
    B(\b010011110),
    B(\b001001111),
    B(\b100011011),
    B(\b110110001),
    B(\b111100100),
    B(\b011110010),
    B(\b001111000)
>>

\* Transpose of the generator matrix, without the identity part.
GEN == <<
    B(\b100111100),
    B(\b010011110),
    B(\b001001111),
    B(\b100011011),
    B(\b110110001),
    B(\b111100100),
    B(\b011110010),
    B(\b001111001)
>>

\* Transpose of the parity-check matrix.
PAR == <<
    B(\b10011110010000000),
    B(\b01001111001000000),
    B(\b00100111100100000),
    B(\b10001101100010000),
    B(\b11011000100001000),
    B(\b11110010000000100),
    B(\b01111001000000010),
    B(\b00111100100000001)
>>

\* Maps each 8-bit syndrome s to an error pattern, at index s + 1.
PATTERNS == <<
    B(0),
    B(\b00000000000000001),
    B(0),
    B(\b00000000000000011),
    B(0),
    B(\b00000000000000101),
    B(0), B(0), B(0),
    B(\b00000000000001001),
    B(0), B(0), B(0), B(0), B(0), B(0), B(0),
    B(\b00000000000010001),
    B(0), B(0), B(0), B(0), B(0), B(0), B(0), B(0), B(0), B(0), B(0), B(0), B(0), B(0), B(0),
    B(\b00000000000100001),
    B(0), B(0), B(0), B(0),
    B(\b00100000000000001),
    B(0), B(0), B(0), B(0), B(0), B(0), B(0), B(0), B(0), B(0), B(0), B(0), B(0), B(0), B(0), B(0), B(0),
    B(\b00000000100000001),
    B(0), B(0), B(0), B(0), B(0), B(0), B(0), B(0),
    B(\b00000000001000001),
    B(0), B(0), B(0), B(0), B(0), B(0), B(0), B(0), B(0), B(0), B(0), B(0), B(0),
    B(\b01000000000000001),
    B(0), B(0), B(0), B(0), B(0), B(0), B(0), B(0), B(0), B(0), B(0), B(0), B(0), B(0), B(0), B(0), B(0), B(0), B(0), B(0), B(0), B(0), B(0), B(0), B(0), B(0), B(0), B(0), B(0),
    B(0), B(0), B(0), B(0), B(0), B(0),
    B(\b00000001000000001),
    B(0), B(0), B(0), B(0), B(0), B(0), B(0), B(0), B(0), B(0), B(0), B(0), B(0),
    B(\b00000000010000001),
    B(0), B(0), B(0), B(0), B(0), B(0), B(0), B(0), B(0), B(0), B(0), B(0),
    B(\b00010000000000001),
    B(0), B(0), B(0), B(0), B(0), B(0), B(0), B(0), B(0), B(0), B(0), B(0), B(0), B(0),
    B(\b10000000000000001),
    B(0), B(0), B(0), B(0), B(0), B(0), B(0), B(0), B(0), B(0), B(0), B(0), B(0), B(0), B(0), B(0), B(0), B(0), B(0), B(0), B(0), B(0), B(0), B(0), B(0), B(0), B(0), B(0), B(0),
    B(0), B(0), B(0), B(0), B(0), B(0), B(0), B(0), B(0), B(0), B(0), B(0), B(0), B(0), B(0), B(0), B(0), B(0), B(0), B(0), B(0), B(0), B(0), B(0), B(0), B(0), B(0), B(0), B(0),
    B(0), B(0),
    B(\b00001000000000001),
    B(0), B(0), B(0), B(0), B(0), B(0), B(0), B(0), B(0), B(0),
    B(\b00000010000000001),
    B(0), B(0), B(0), B(0), B(0), B(0), B(0), B(0), B(0), B(0),
    B(\b00000100000000001),
    B(0), B(0), B(0), B(0), B(0), B(0), B(0), B(0), B(0), B(0), B(0), B(0), B(0), B(0), B(0)
>>

---------------------------------------------------------------------------
(* The functions.                                                          *)

\* rotate_17 reinserting the low bit at bit 15, as if the word was 16 bits long.
rotate_16(w) ==
    LET lsb == BitAnd(w, B(1))
    IN  BitOr(Shr(w, 1), Shl(lsb, RotateMsb - 1, U32Bits))

\* Cyclically rotate the word right as if it was 17 bits long.
rotate_17(w) ==
    LET lsb == BitAnd(w, B(1))
    IN  BitOr(Shr(w, 1), Shl(lsb, RotateMsb, U32Bits))

\* assert_eq!(data >> 9, 0)
encode_contract(d) == Shr(d, DataBits) = B(0)

\* encode returning the parity bits without the data bits above them.
encode_parity_only(d) == matrix_mul(d, GEN, U32Bits)

\* The body of encode after its assertion.
encode(d) == matrix_mul_systematic(d, GEN, U32Bits)

\* decode without its assertion.
decode_contract_unchecked(w) == TRUE

\* assert_eq!(word >> 17, 0)
decode_contract(w) == Shr(w, WordBits) = B(0)

\* A table holding the single-bit pattern alone.
pattern_of_single_only(syn) ==
    LET p == PATTERNS[ToInt(syn) + 1]
    IN  IF count_ones(p) > 1 THEN B(0) ELSE p

\* A table whose patterns correct the trapped low bit alone.
pattern_of_lsb_only(syn) == BitAnd(PATTERNS[ToInt(syn) + 1], B(1))

\* A table that also holds, at syndrome 2, the single-bit error at bit 1.
pattern_of_untrapped(syn) ==
    IF syn = B(\b10) THEN B(\b10) ELSE PATTERNS[ToInt(syn) + 1]

\* PATTERNS[syndrome as usize]
pattern_of(syn) == PATTERNS[ToInt(syn) + 1]

\* The closure with a failure flag that a later correction does not supersede.
fold_step_sticky_none(fx, w, syn) ==
    IF syn = B(0) THEN <<fx, rotate_17(w)>>
    ELSE LET pat == pattern_of(syn)
         IN  IF pat = B(0) THEN <<None, rotate_17(w)>>
             ELSE <<IF fx = None THEN None ELSE Some(count_ones(pat)),
                    rotate_17(BitXor(w, pat))>>

\* The closure leaving the accumulator as it is when the pattern is zero.
fold_step_keep_fixed(fx, w, syn) ==
    IF syn = B(0) THEN <<fx, rotate_17(w)>>
    ELSE LET pat == pattern_of(syn)
         IN  IF pat = B(0) THEN <<fx, rotate_17(w)>>
             ELSE <<Some(count_ones(pat)), rotate_17(BitXor(w, pat))>>

\* The closure folded over 0..17, given the syndrome it computed first.
fold_step(fx, w, syn) ==
    IF syn = B(0) THEN <<fx, rotate_17(w)>>
    ELSE LET pat == pattern_of(syn)
         IN  IF pat = B(0) THEN <<None, rotate_17(w)>>
             ELSE <<Some(count_ones(pat)), rotate_17(BitXor(w, pat))>>

\* The result taken from above the 9 data bits instead of above the 8 parity bits.
decode_result_shift(fx, w) ==
    IF fx = None THEN None
    ELSE Some(<<Cast(Shr(w, DataBits), U16Bits), fx[1]>>)

\* fixed.map(|err| ((word >> 8) as u16, err))
decode_result(fx, w) ==
    IF fx = None THEN None
    ELSE Some(<<Cast(Shr(w, ParityShift), U16Bits), fx[1]>>)

---------------------------------------------------------------------------
(* Inputs.                                                                 *)
Data9 == SUBSET (0 .. DataBits - 1)
Word17 == SUBSET (0 .. WordBits - 1)
AllU16 == SUBSET (0 .. U16Bits - 1)
OverWords ==
    { lo \cup hi : lo \in SUBSET (0 .. OverLowBits - 1),
                   hi \in (SUBSET (WordBits .. WordBits + OverHighBits - 1)) \ {{}} }
\* The masks `1 << i ^ 1 << j ...` of at most k distinct bits of a word.
RECURSIVE Masks(_)
Masks(k) ==
    IF k = 0 THEN {{}}
    ELSE LET m == Masks(k - 1)
         IN  m \cup {BitXor(e, {i}) : e \in m, i \in 0 .. WordBits - 1}

ErrorMasks == Masks(MaxErrors)

Idle ==
    /\ acc = <<None, {}>>
    /\ n = 0
    /\ syndrome = {}
    /\ result = None
    /\ corrections = 0
    /\ flipped = 0
    /\ undef = FALSE

\* A caller invokes encode with any u16.
InitEncode ==
    /\ op = "encode"
    /\ pc = "call"
    /\ data = {}
    /\ errs = {}
    /\ arg \in AllU16
    /\ Idle

\* A caller invokes decode with any 17-bit word, or with a wider one.
InitDecode ==
    /\ op = "decode"
    /\ pc = "call"
    /\ data = {}
    /\ errs = {}
    /\ arg \in Word17 \cup OverWords
    /\ Idle

\* The loopback harness: decode(encode(w) ^ 1 << i ^ 1 << j).
InitChan ==
    /\ op = "decode"
    /\ pc = "call"
    /\ data \in Data9
    /\ errs \in ErrorMasks
    /\ arg = BitXor(encode(data), errs)
    /\ Idle

\* The rotation harness: a 17-bit word about to be rotated 17 times.
InitRot ==
    /\ op = "rotate"
    /\ pc = "call"
    /\ data = {}
    /\ errs = {}
    /\ arg \in Word17
    /\ acc = <<None, arg>>
    /\ n = 0
    /\ syndrome = {}
    /\ result = None
    /\ corrections = 0
    /\ flipped = 0
    /\ undef = FALSE

Init == InitEncode \/ InitDecode

---------------------------------------------------------------------------
(* Actions.                                                                *)

\* encode: the assertion, then the systematic product.
EncodeCall ==
    /\ op = "encode"
    /\ pc = "call"
    /\ IF encode_contract(arg)
       THEN /\ pc' = "done"
            /\ result' = Some(encode(arg))
       ELSE /\ pc' = "panic"
            /\ result' = None
    /\ UNCHANGED <<op, data, errs, arg, acc, n, syndrome,
                   corrections, flipped, undef>>

\* decode: the assertion, then the fold's initial accumulator (Some(0), word).
DecodeCall ==
    /\ op = "decode"
    /\ pc = "call"
    /\ IF decode_contract(arg)
       THEN /\ pc' = "fold"
            /\ acc' = <<Some(0), arg>>
       ELSE /\ pc' = "panic"
            /\ UNCHANGED acc
    /\ UNCHANGED <<op, data, errs, arg, n, syndrome, result,
                   corrections, flipped, undef>>

\* One iteration of the fold over 0..17.
FoldStep ==
    /\ pc = "fold"
    /\ n < FoldSteps
    /\ syndrome' = matrix_mul(word, PAR, U8Bits)
    /\ acc' = fold_step(fixed, word, syndrome')
    /\ flipped' = flipped + count_ones(BitXor(word', rotate_17(word)))
    /\ corrections' = corrections + (IF flipped' > flipped THEN 1 ELSE 0)
    /\ undef' = (undef \/ fixed' = None)
    /\ n' = n + 1
    /\ UNCHANGED <<op, pc, data, errs, arg, result>>

\* After 17 iterations decode maps the accumulator to its result.
DecodeReturn ==
    /\ pc = "fold"
    /\ n = FoldSteps
    /\ pc' = "done"
    /\ result' = decode_result(fixed, word)
    /\ UNCHANGED <<op, data, errs, arg, acc, n, syndrome,
                   corrections, flipped, undef>>

\* The rotation harness applies rotate_17, 17 times.
RotateStep ==
    /\ op = "rotate"
    /\ n < RotateCount
    /\ acc' = <<fixed, rotate_17(word)>>
    /\ n' = n + 1
    /\ pc' = IF n' = RotateCount THEN "done" ELSE "call"
    /\ UNCHANGED <<op, data, errs, arg, syndrome, result,
                   corrections, flipped, undef>>

NextDecode == DecodeCall \/ FoldStep \/ DecodeReturn

Next == EncodeCall \/ DecodeCall \/ FoldStep \/ DecodeReturn

\* Every call of either entry point.
Spec == Init /\ [][Next]_vars

\* Calls of encode alone.
SpecEnc == InitEncode /\ [][EncodeCall]_vars

\* The loopback harness: decode of a codeword with at most MaxErrors flips.
SpecChan == InitChan /\ [][NextDecode]_vars

\* The rotation harness.
SpecRot == InitRot /\ [][RotateStep]_vars

---------------------------------------------------------------------------
(* Properties.                                                             *)

\* The word is outside the width its entry point declares.
TooWide(w, bits) == w \ (0 .. bits - 1) # {}

\* Hamming distance.
Distance(a, b) == count_ones(BitXor(a, b))

\* C1: round trip with zero errors.  For every data word d in [0, 512),
\* decode(encode(d)) returns Some((d, 0)): the data word and a count of 0.
RoundTripNoErrors ==
    (pc = "done" /\ errs = {}) => result = Some(<<data, 0>>)

RoundTripNoErrorsWitness ==
    /\ pc = "done"
    /\ errs = {}
    /\ data = B(\b1010101)
    /\ arg = B(\b101010100100001)
    /\ result = Some(<<B(\b1010101), 0>>)

\* C2: single-bit correction.  For every data word d and every bit position
\* i in [0, 17), decode(encode(d) ^ 1 << i) returns Some((d, 1)); for i > 0
\* the walk has first marked the accumulator undefined, and a later step
\* has overwritten it with the count 1.
SingleBitCorrected ==
    (pc = "done" /\ Cardinality(errs) = 1) =>
        /\ result = Some(<<data, 1>>)
        /\ (0 \notin errs => undef)

SingleBitCorrectedWitness ==
    /\ pc = "done"
    /\ data = B(\b1010101)
    /\ errs = {5}
    /\ arg = B(\b101010100000001)
    /\ undef
    /\ result = Some(<<data, 1>>)

\* C3: double-bit correction.  For every data word d and every two distinct
\* bit positions i, j in [0, 17), decode(encode(d) ^ 1 << i ^ 1 << j)
\* returns Some((d, 2)).
DoubleBitCorrected ==
    (pc = "done" /\ Cardinality(errs) = 2) => result = Some(<<data, 2>>)

DoubleBitCorrectedWitness ==
    /\ pc = "done"
    /\ data = B(\b1010101)
    /\ errs = {3, 12}
    /\ result = Some(<<data, 2>>)

\* C4: no false success.  For every 17-bit word w, decode(w) does not panic,
\* and if it returns Some((d, n)) then n is 0, 1 or 2, d < 512 and encode(d)
\* differs from w in exactly n bit positions.  (Hence a word at distance 3
\* or more from every codeword decodes to None.)
NoFalseSuccess ==
    (op = "decode" /\ ~TooWide(arg, WordBits)) =>
        /\ pc # "panic"
        /\ (pc = "done" /\ result # None) =>
              LET d == result[1][1]
                  k == result[1][2]
              IN  /\ k \in {0, 1, 2}
                  /\ ~TooWide(d, DataBits)
                  /\ Distance(encode(d), arg) = k

\* A success whose accumulator was undefined earlier in the walk.
NoFalseSuccessWitness ==
    /\ op = "decode"
    /\ pc = "done"
    /\ undef
    /\ result # None
    /\ result[1][2] = 2
    /\ Distance(encode(result[1][1]), arg) = 2

\* C5: systematic encoding.  For every data word d in [0, 512), encode(d) is
\* below 2^17, its high 9 bits are d, and bit 7-k of its low 8 bits is the
\* parity of popcount(d & GEN[k]) for k in 0..7; it reproduces the test
\* vectors encode(0b100000001) and encode(0b1010101).
SystematicEncoding ==
    (op = "encode" /\ pc = "done") =>
        LET c == result[1]
        IN  /\ ~TooWide(arg, DataBits)
            /\ ~TooWide(c, WordBits)
            /\ Shr(c, ParityShift) = arg
            /\ \A k \in 0 .. 7 :
                  ((7 - k) \in c) <=> (Cardinality(arg \cap GEN[k + 1]) % 2 = 1)
            /\ (arg = B(\b100000001) => c = B(\b10000000110100101))
            /\ (arg = B(\b1010101) => c = B(\b101010100100001))

SystematicEncodingWitness ==
    /\ op = "encode"
    /\ pc = "done"
    /\ arg = B(\b100000001)
    /\ result = Some(B(\b10000000110100101))

\* C6: minimum distance 5.  For every two distinct data words a, b in
\* [0, 512), encode(a) and encode(b) differ in at least 5 bit positions.
MinimumDistance ==
    (op = "encode" /\ pc = "done") =>
        \A b \in Data9 : b # arg => Distance(encode(b), result[1]) >= 5

\* Two codewords at distance exactly 5.
MinimumDistanceWitness ==
    /\ op = "encode"
    /\ pc = "done"
    /\ arg = B(1)
    /\ Distance(encode(B(0)), result[1]) = 5

\* C7: contract enforcement.  encode called with a bit at position 9 or
\* above set, and decode called with a bit at position 17 or above set,
\* panic on their assertion before any computation: no fold step runs and
\* no value is returned.
ContractEnforced ==
    /\ (op = "encode" /\ TooWide(arg, DataBits) /\ pc # "call") =>
          (pc = "panic" /\ result = None)
    /\ (op = "decode" /\ TooWide(arg, WordBits) /\ pc # "call") =>
          (pc = "panic" /\ result = None /\ n = 0 /\ acc = <<None, {}>>)

ContractEnforcedWitness ==
    /\ op = "decode"
    /\ 18 \in arg
    /\ pc = "panic"
    /\ result = None

EvenNonZeroIndices ==
    {s \in 0 .. 255 : s % 2 = 0 /\ PATTERNS[s + 1] # B(0)}

RotateIsCycle ==
    (op = "rotate") =>
        LET r == rotate_17(word)
        IN  /\ ~TooWide(word, WordBits)
            /\ ~TooWide(r, WordBits)
            /\ (16 \in r) <=> (0 \in word)
            /\ \A k \in 1 .. 16 : ((k - 1) \in r) <=> (k \in word)
            /\ (n = 17 => word = arg)

RotateIsCycleWitness ==
    /\ op = "rotate"
    /\ n = 17
    /\ arg = B(\b11100011001010101)
    /\ word = arg

\* C10: within one walk, once a step has XORed a non-zero pattern into the
\* word, the corrected word has syndrome 0, so every later step takes the
\* syndrome-zero branch: at most one correction is applied, the accumulator
\* is not reset to undefined after it, and the count returned is the number
\* of bits flipped in the walk.
OneCorrectionPerWalk ==
    (op = "decode") =>
        /\ (corrections > 0) =>
              /\ corrections = 1
              /\ matrix_mul(word, PAR, U8Bits) = B(0)
              /\ fixed = Some(flipped)
        /\ (pc = "done" /\ result # None) => result[1][2] = flipped

\* A walk that was undefined, then corrected two bits, then stepped on
\* through the syndrome-zero branch to its end.
OneCorrectionPerWalkWitness ==
    /\ op = "decode"
    /\ pc = "done"
    /\ undef
    /\ corrections = 1
    /\ flipped = 2
    /\ syndrome = B(0)
    /\ result # None

====
